---- MODULE Spec2Model ----
(***************************************************************************)
(* Freight delay monitor: one execution of freightDelayMonitorWorkflow,    *)
(* the four activities it calls through the engine's retry policies, and   *)
(* direct calls of single operations.                                      *)
(*                                                                         *)
(* Strings are sequences of one-character strings, so that trim(), the     *)
(* e-mail pattern and String.replace are computed rather than assumed.     *)
(* Numbers are integers (minutes and seconds are whole in every case the   *)
(* model draws).                                                           *)
(***************************************************************************)
EXTENDS Integers, Sequences, FiniteSets, TLC

VARIABLES
  input,         \* FreightDelayMonitorInput: route, customer, config
  pc,            \* position of the workflow function
  result,        \* FreightDelayMonitorResult under construction
  failure,       \* the ApplicationFailure the workflow threw, or NoFailure
  trafficData,   \* what getTrafficData returned to the workflow, or NoTrafficData
  notification,  \* the workflow's DelayNotification, or NoNotification
  messageSource, \* the workflow's messageSource: "none", "ai" or "fallback"
  engine,        \* the activity call the workflow is awaiting
  calls,         \* how often the workflow has called each activity proxy
  emailLog,      \* what the e-mail provider did in this execution
  messageLog,    \* what the chat-completion provider was ready to do for the
                 \* last attempt of generateDelayMessage, and whether it was asked
  direct,        \* a direct call of one operation and its outcome
  history,       \* the execution's event history: the activity calls the workflow
                 \* scheduled, with their arguments, and the outcomes delivered to it
  monitor,       \* a call of monitorWorkflow: its position, its clock, its client
  workerProcess, \* the worker process: worker, isShuttingDown, its signal handlers
  runTimer       \* the execution's workflowRunTimeout in seconds (0: none), and
                 \* the seconds elapsed since the execution started

vars == <<input, pc, result, failure, trafficData, notification, messageSource,
          engine, calls, emailLog, messageLog, direct, history, monitor, workerProcess,
          runTimer>>

----------------------------------------------------------------------------
(* Bounds *)

MaxBaseline == 2
MaxThreshold == 2
MaxTravelMinutes == 4
MaxDirect == 3
MaxTimeoutMs == 3
MaxPollIntervalMs == 2
MaxDuration == 1
MaxSignals == 3

----------------------------------------------------------------------------
(* Strings *)

IsWhitespace(c) == c = " "

RECURSIVE TrimStart(_)
TrimStart(s) ==
  IF s = <<>> THEN <<>>
  ELSE IF IsWhitespace(Head(s)) THEN TrimStart(Tail(s)) ELSE s

RECURSIVE TrimEnd(_)
TrimEnd(s) ==
  IF s = <<>> THEN <<>>
  ELSE IF IsWhitespace(s[Len(s)]) THEN TrimEnd(SubSeq(s, 1, Len(s) - 1)) ELSE s

\* String.prototype.trim
Trim(s) == TrimEnd(TrimStart(s))

\* the test `!x || x.trim().length === 0` of the validators
IsBlank(s) == s = <<>> \/ Len(Trim(s)) = 0

\* [^\s@]+
NoSpaceNoAt(s) == s # <<>> /\ \A i \in 1..Len(s) : ~IsWhitespace(s[i]) /\ s[i] # "@"

\* /^[^\s@]+@[^\s@]+\.[^\s@]+$/.test(s)
emailRegex(s) ==
  \E i \in 1..Len(s) : \E j \in 1..Len(s) :
     /\ i < j
     /\ s[i] = "@"
     /\ s[j] = "."
     /\ NoSpaceNoAt(SubSeq(s, 1, i - 1))
     /\ NoSpaceNoAt(SubSeq(s, i + 1, j - 1))
     /\ NoSpaceNoAt(SubSeq(s, j + 1, Len(s)))

\* String.prototype.replace(pattern, value) with a string pattern: the first
\* occurrence only.  A placeholder is one element of the sequence.
RECURSIVE Replace(_, _, _)
Replace(s, placeholder, value) ==
  IF s = <<>> THEN <<>>
  ELSE IF Head(s) = placeholder THEN value \o Tail(s)
  ELSE <<Head(s)>> \o Replace(Tail(s), placeholder, value)

----------------------------------------------------------------------------
(* Data model and validation *)

\* validateDeliveryRoute: "ok", or the message of the Error it throws
validateDeliveryRoute(route) ==
  IF IsBlank(route.routeId) THEN "Route ID must be a non-empty string"
  ELSE IF IsBlank(route.origin) THEN "Origin must be a non-empty string"
  ELSE IF IsBlank(route.destination) THEN "Destination must be a non-empty string"
  ELSE IF route.baselineTimeMinutes <= 0 THEN "Baseline time must be a positive number"
  ELSE "ok"

\* validateTrafficData: "ok", or the message of the Error it throws
validateTrafficData(data) ==
  IF data.currentTravelTimeMinutes < 0 THEN "Current travel time must be a non-negative number"
  ELSE IF data.trafficConditions = <<>> THEN "Traffic conditions must be a non-empty string"
  ELSE IF data.retrievedAt # "date" THEN "Retrieved at must be a valid date"
  ELSE "ok"

\* validateWorkflowConfig: "ok", or the message of the Error it throws
validateWorkflowConfig(config) ==
  IF config.delayThresholdMinutes <= 0 THEN "Delay threshold must be a positive number"
  ELSE IF IsBlank(config.fallbackMessage) THEN "Fallback message must be a non-empty string"
  ELSE "ok"

\* the client's validateInput: "ok", or the message of the Error it throws
validateInput(in) ==
  IF validateDeliveryRoute(in.route) # "ok" THEN validateDeliveryRoute(in.route)
  ELSE IF IsBlank(in.customer.customerId) THEN "Customer ID must be a non-empty string"
  ELSE IF in.customer.customerEmail = <<>> THEN "Customer email must be a string"
  ELSE IF ~emailRegex(in.customer.customerEmail)
    THEN "Customer email must be a valid email address"
  ELSE validateWorkflowConfig(in.config)

\* a notification whose route field is absent
NoRoute == [kind |-> "none"]

\* validateDelayNotification: "ok", or the message of the Error it throws
validateDelayNotification(n) ==
  IF IsBlank(n.customerId) THEN "Customer ID must be a non-empty string"
  ELSE IF n.customerEmail = <<>> THEN "Customer email must be a string"
  ELSE IF ~emailRegex(n.customerEmail) THEN "Customer email must be a valid email address"
  ELSE IF n.route = NoRoute THEN "Route must be provided"
  ELSE IF n.delayMinutes < 0 THEN "Delay minutes must be a non-negative number"
  ELSE IF IsBlank(n.message) THEN "Message must be a non-empty string"
  ELSE "ok"

----------------------------------------------------------------------------
(* Delay analysis (DelayAnalysisActivityImpl) *)

Returned(v) == [kind |-> "return", value |-> v]
Thrown(type, cause) == [kind |-> "throw", type |-> type, cause |-> cause]

\* Math.max(a, b)
MathMax(a, b) == IF a >= b THEN a ELSE b

calculatedDelay_NoFloor(currentTravelTimeMinutes, baseline) ==
  currentTravelTimeMinutes - baseline

calculatedDelay(currentTravelTimeMinutes, baseline) ==
  MathMax(0, currentTravelTimeMinutes - baseline)

\* calculateDelay: validates, computes, rethrows what validation throws
calculateDelay(data, baseline) ==
  IF validateTrafficData(data) # "ok"
    THEN Thrown("Error", "InvalidTrafficData")
  ELSE IF baseline <= 0
    THEN Thrown("Error", "InvalidBaseline")
  ELSE Returned(calculatedDelay(data.currentTravelTimeMinutes, baseline))

logDelaySeverity_LowInclusive(delayMinutes) ==
  IF delayMinutes = 0 THEN "NONE"
  ELSE IF delayMinutes <= 10 THEN "MINIMAL"
  ELSE IF delayMinutes <= 20 THEN "LOW"
  ELSE IF delayMinutes <= 30 THEN "MODERATE"
  ELSE IF delayMinutes <= 60 THEN "HIGH"
  ELSE "CRITICAL"

\* the severity logDelaySeverity writes to the console
logDelaySeverity(delayMinutes) ==
  IF delayMinutes = 0 THEN "NONE"
  ELSE IF delayMinutes <= 10 THEN "MINIMAL"
  ELSE IF delayMinutes < 20 THEN "LOW"
  ELSE IF delayMinutes <= 30 THEN "MODERATE"
  ELSE IF delayMinutes <= 60 THEN "HIGH"
  ELSE "CRITICAL"

\* what one call of calculateDelay leaves on the console as severity: nothing
\* when it throws before the computation
loggedSeverity(data, baseline) ==
  IF calculateDelay(data, baseline).kind = "throw" THEN "nothing"
  ELSE logDelaySeverity(calculatedDelay(data.currentTravelTimeMinutes, baseline))

exceedsThreshold_Inclusive(delay, threshold) ==
  IF delay < 0 THEN Thrown("Error", "InvalidDelay")
  ELSE IF threshold <= 0 THEN Thrown("Error", "InvalidThreshold")
  ELSE Returned(delay >= threshold)

exceedsThreshold(delay, threshold) ==
  IF delay < 0 THEN Thrown("Error", "InvalidDelay")
  ELSE IF threshold <= 0 THEN Thrown("Error", "InvalidThreshold")
  ELSE Returned(delay > threshold)

----------------------------------------------------------------------------
(* Traffic monitoring (TrafficMonitoringActivityImpl) *)

\* Math.ceil(seconds / 60)
CeilMinutes_Floor(seconds) == seconds \div 60

\* Math.ceil(seconds / 60)
CeilMinutes(seconds) == (seconds + 59) \div 60

trafficConditionsOf(delayMinutes) ==
  IF delayMinutes = 0 THEN <<"Normal traffic conditions">>
  ELSE IF delayMinutes <= 15 THEN <<"Light traffic delays">>
  ELSE IF delayMinutes <= 30 THEN <<"Moderate traffic delays">>
  ELSE <<"Heavy traffic delays">>

\* what the Distance Matrix call can do in one attempt
DurationSeconds ==
  {0} \cup {60 * m : m \in 1..MaxTravelMinutes}
      \cup {60 * (m - 1) + 1 : m \in 1..MaxTravelMinutes}

TrafficResponses ==
  [kind : {"ok"}, seconds : DurationSeconds]
    \cup [kind : {"apiStatus", "noRows", "noElement", "elementStatus", "noDuration"}]
    \cup [kind : {"axios"}, code : {"", "ECONNABORTED"},
          status : {0, 400, 401, 403, 404, 500, 503}]

parseGoogleMapsResponse(response, baselineMinutes) ==
  IF response.kind \in {"noRows", "noElement", "elementStatus", "noDuration"}
    THEN Thrown("Error", "ProviderData")
  ELSE LET currentTravelTimeMinutes == CeilMinutes(response.seconds)
           delayMinutes == MathMax(0, currentTravelTimeMinutes - baselineMinutes)
       IN  Returned([currentTravelTimeMinutes |-> currentTravelTimeMinutes,
                     delayMinutes |-> delayMinutes,
                     trafficConditions |-> trafficConditionsOf(delayMinutes),
                     retrievedAt |-> "date"])

\* the catch block of getTrafficData: every branch throws a plain Error, and
\* what no branch matches is rethrown as it is
trafficError(response) ==
  IF response.kind = "axios"
    THEN IF response.code = "ECONNABORTED" THEN Thrown("Error", "NetworkTimeout")
         ELSE IF response.status = 401 THEN Thrown("Error", "Http401")
         ELSE IF response.status = 403 THEN Thrown("Error", "Http403")
         ELSE IF response.status >= 500 THEN Thrown("Error", "Http5xx")
         ELSE IF response.status = 400 THEN Thrown("Error", "Http400")
         ELSE Thrown("AxiosError", "AxiosOther")
  ELSE Thrown("Error", "ProviderData")

getTrafficData(route, response) ==
  IF validateDeliveryRoute(route) # "ok" THEN Thrown("Error", "InvalidRoute")
  ELSE IF response.kind = "axios" THEN trafficError(response)
  ELSE IF response.kind = "apiStatus" THEN trafficError(response)
  ELSE parseGoogleMapsResponse(response, route.baselineTimeMinutes)

----------------------------------------------------------------------------
(* Message generation (MessageGenerationActivityImpl) *)

\* the template the constructor installs: it has {delayMinutes} only
defaultFallbackMessage == <<"Dear Valued Customer, delay of ", "{delayMinutes}", " minutes">>

\* Number.prototype.toString, as the one element the digits make
NumberToString(n) == <<ToString(n)>>

\* generateFallbackMessage when this.fallbackMessage is template
fallbackFromTemplate(template, n) ==
  LET message == Replace(Replace(Replace(template,
                     "{delayMinutes}", NumberToString(n.delayMinutes)),
                     "{origin}", n.route.origin),
                     "{destination}", n.route.destination)
  IN  IF n.route.routeId # <<>>
        THEN message \o <<"Route Reference: ">> \o n.route.routeId
        ELSE message

\* generateFallbackMessage of an activity whose template was never set
generateFallbackMessage(n) == fallbackFromTemplate(defaultFallbackMessage, n)

\* templates setFallbackMessage accepts (it refuses a blank one): the default,
\* one with the three placeholders, one that names the delay twice
FallbackTemplates ==
  {defaultFallbackMessage,
   <<"Delay of ", "{delayMinutes}", " from ", "{origin}", " to ", "{destination}">>,
   <<"Delayed ", "{delayMinutes}", " minutes; again: ", "{delayMinutes}">>}

\* what the chat-completion call can do in one attempt; minLength is 50
minGeneratedLength == 50

MessageResponses ==
  [kind : {"noClient", "error"}, text : {<<>>}, length : {0}]
    \cup [kind : {"content"}, text : {<<>>}, length : {0}]
    \cup [kind : {"content"}, text : {<<"AI text">>},
          length : {minGeneratedLength - 1, minGeneratedLength}]

generateAIMessage_NoLengthCheck(response) ==
  IF response.kind = "error" THEN Thrown("Error", "ProviderError")
  ELSE IF response.text = <<>> THEN Thrown("Error", "EmptyContent")
  ELSE Returned(response.text)

\* generateAIMessage with validateGeneratedMessage
generateAIMessage(response) ==
  IF response.kind = "error" THEN Thrown("Error", "ProviderError")
  ELSE IF response.text = <<>> THEN Thrown("Error", "EmptyContent")
  ELSE IF response.length < minGeneratedLength THEN Thrown("Error", "TooShort")
  ELSE Returned(response.text)

\* the outer catch block of generateDelayMessage: the fallback message, or,
\* when generateFallbackMessage throws too (route.origin of an absent route),
\* the original error again
fallbackOnError(n, error) ==
  IF n.route = NoRoute THEN Thrown("Error", error)
  ELSE Returned(generateFallbackMessage(n))

generateDelayMessage_RejectsInvalid(n, response) ==
  IF validateDelayNotification(n) # "ok" THEN Thrown("Error", validateDelayNotification(n))
  ELSE IF response.kind = "noClient" THEN Returned(generateFallbackMessage(n))
  ELSE IF generateAIMessage(response).kind = "throw" THEN Returned(generateFallbackMessage(n))
  ELSE generateAIMessage(response)

generateDelayMessage(n, response) ==
  IF validateDelayNotification(n) # "ok"
    THEN fallbackOnError(n, validateDelayNotification(n))
  ELSE IF response.kind = "noClient" THEN Returned(generateFallbackMessage(n))
  ELSE IF generateAIMessage(response).kind = "throw" THEN Returned(generateFallbackMessage(n))
  ELSE generateAIMessage(response)

\* whether the attempt reached the chat-completion call
aiCalled(n, response) == validateDelayNotification(n) = "ok" /\ response.kind # "noClient"

----------------------------------------------------------------------------
(* Notification delivery (SendGridNotificationActivity) *)

\* what sgMail.send can do in one attempt: accept the mail, or reject with an
\* error that has a message and either a network code or a response status
\* (0: no response)
EmailMessages == {"other", "authentication", "unauthorized", "invalid email", "malformed"}

EmailResponses ==
  [kind : {"accepted"}, code : {""}, status : {0}, message : {"other"}]
    \cup [kind : {"error"}, code : {"ECONNRESET", "ETIMEDOUT", "ENOTFOUND"},
          status : {0}, message : EmailMessages]
    \cup [kind : {"error"}, code : {""},
          status : {0, 302, 400, 401, 429, 503}, message : EmailMessages]

\* the Error a failed validateDelayNotification hands to the catch block
validationError == [kind |-> "error", code |-> "", status |-> 0, message |-> "validation"]

isRetryableError_NoClientErrorClass(error) ==
  IF error.message = "validation" THEN FALSE
  ELSE IF error.code \in {"ECONNRESET", "ETIMEDOUT", "ENOTFOUND"} THEN TRUE
  ELSE IF error.status # 0 /\ (error.status >= 500 \/ error.status = 429) THEN TRUE
  ELSE IF error.message \in {"authentication", "unauthorized"} THEN FALSE
  ELSE IF error.message \in {"invalid email", "malformed"} THEN FALSE
  ELSE TRUE

isRetryableError_RateLimitPermanent(error) ==
  IF error.message = "validation" THEN FALSE
  ELSE IF error.code \in {"ECONNRESET", "ETIMEDOUT", "ENOTFOUND"} THEN TRUE
  ELSE IF error.status # 0 /\ error.status >= 500 THEN TRUE
  ELSE IF error.status # 0 /\ error.status >= 400 /\ error.status < 500 THEN FALSE
  ELSE IF error.message \in {"authentication", "unauthorized"} THEN FALSE
  ELSE IF error.message \in {"invalid email", "malformed"} THEN FALSE
  ELSE TRUE

isRetryableError(error) ==
  IF error.message = "validation" THEN FALSE
  ELSE IF error.code \in {"ECONNRESET", "ETIMEDOUT", "ENOTFOUND"} THEN TRUE
  ELSE IF error.status # 0 /\ (error.status >= 500 \/ error.status = 429) THEN TRUE
  ELSE IF error.status # 0 /\ error.status >= 400 /\ error.status < 500 /\ error.status # 429
    THEN FALSE
  ELSE IF error.message \in {"authentication", "unauthorized"} THEN FALSE
  ELSE IF error.message \in {"invalid email", "malformed"} THEN FALSE
  ELSE TRUE

emailError_ReportsSent(error) ==
  IF isRetryableError(error) THEN Thrown("Error", "RetryableEmail") ELSE Returned(TRUE)

\* the catch block of sendEmailNotification
emailError(error) ==
  IF isRetryableError(error) THEN Thrown("Error", "RetryableEmail") ELSE Returned(FALSE)

sendEmailNotification_AllErrorsRaise(n, response) ==
  IF validateDelayNotification(n) # "ok" THEN emailError(validationError)
  ELSE IF response.kind = "accepted" THEN Returned(TRUE)
  ELSE Thrown("Error", "RetryableEmail")

sendEmailNotification(n, response) ==
  IF validateDelayNotification(n) # "ok" THEN emailError(validationError)
  ELSE IF response.kind = "accepted" THEN Returned(TRUE)
  ELSE emailError(response)

\* whether the attempt reached sgMail.send, and whether the provider took the mail
providerCalled_BeforeValidation(n) == TRUE

providerCalled(n) == validateDelayNotification(n) = "ok"
providerAccepted(n, response) == providerCalled(n) /\ response.kind = "accepted"

\* n with sentAt = new Date()
Stamped(n) == [f \in DOMAIN n \cup {"sentAt"} |-> IF f = "sentAt" THEN "now" ELSE n[f]]

notificationAfter_StampsBeforeSend(n, response) ==
  IF providerCalled(n) THEN Stamped(n) ELSE n

\* the caller's notification object after sendEmailNotification(n): sentAt is
\* assigned between sgMail.send and return true
notificationAfter(n, response) ==
  IF providerAccepted(n, response) THEN Stamped(n) ELSE n

----------------------------------------------------------------------------
(* Retry policies and activity options of the workflow *)

trafficMonitoringRetryPolicy ==
  [maximumAttempts |-> 5,
   nonRetryableErrorTypes |-> {"AuthenticationError", "InvalidRouteError"}]

delayAnalysisRetryPolicy_SingleAttempt ==
  [maximumAttempts |-> 1,
   nonRetryableErrorTypes |-> {"ValidationError", "InvalidDataError"}]

delayAnalysisRetryPolicy ==
  [maximumAttempts |-> 3,
   nonRetryableErrorTypes |-> {"ValidationError", "InvalidDataError"}]

messageGenerationRetryPolicy ==
  [maximumAttempts |-> 4,
   nonRetryableErrorTypes |-> {"AuthenticationError", "QuotaExceededError"}]

notificationRetryPolicy ==
  [maximumAttempts |-> 6,
   nonRetryableErrorTypes |-> {"AuthenticationError", "InvalidEmailError"}]

Activities == {"getTrafficData", "calculateDelay", "generateDelayMessage", "sendEmailNotification"}

\* the retry policy proxyActivities binds to each activity
activityOptions(act) ==
  CASE act = "getTrafficData" -> trafficMonitoringRetryPolicy
    [] act = "calculateDelay" -> delayAnalysisRetryPolicy
    [] act = "generateDelayMessage" -> messageGenerationRetryPolicy
    [] act = "sendEmailNotification" -> notificationRetryPolicy

\* startToCloseTimeout of the activity's options, in seconds
startToCloseTimeout(act) ==
  CASE act = "getTrafficData" -> 60
    [] act = "calculateDelay" -> 30
    [] act = "generateDelayMessage" -> 90
    [] act = "sendEmailNotification" -> 120

\* workflowRunTimeout of an execution the client starts, in seconds
workflowRunTimeout == 300

\* a start-to-close timeout of one attempt
timeoutFailure == Thrown("TimeoutFailure", "StartToCloseTimeout")

\* what an awaited proxy call rejects with once the execution's cancellation
\* was requested
cancelledFailure == Thrown("CancelledFailure", "Workflow cancelled")

shouldRetry_OneTooMany(policy, attempt, outcome) ==
  /\ outcome.kind = "throw"
  /\ outcome.type \notin policy.nonRetryableErrorTypes
  /\ attempt <= policy.maximumAttempts

\* the engine retries a failed attempt unless the failure's type is listed as
\* non-retryable or the attempts are used up
shouldRetry(policy, attempt, outcome) ==
  /\ outcome.kind = "throw"
  /\ outcome.type \notin policy.nonRetryableErrorTypes
  /\ attempt < policy.maximumAttempts

----------------------------------------------------------------------------
(* The inputs of one execution *)

Routes ==
  [routeId : {<<>>, <<"R">>}, origin : {<<" ">>, <<"A">>}, destination : {<<>>, <<"B">>},
   baselineTimeMinutes : 0..MaxBaseline]

Customers ==
  [customerId : {<<>>, <<"C">>},
   customerEmail : {<<"a", "@", "b">>, <<"a", "@", "b", ".", "c">>}]

Configs ==
  [delayThresholdMinutes : 0..MaxThreshold,
   fallbackMessage : {<<>>, <<"Delay of ", "{delayMinutes}", " from ", "{origin}",
                              " to ", "{destination}">>}]

NoFailure == [type |-> "none"]
NoTrafficData == [kind |-> "none"]
NoNotification == [kind |-> "none"]
NoOutcome == [kind |-> "none"]
NoDirect == [op |-> "none"]
NoAnswer == [kind |-> "none", status |-> 0]
NoMessageLog == [response |-> [kind |-> "none", text |-> <<>>, length |-> 0], called |-> FALSE]

NoHistory == [scheduled |-> <<>>, delivered |-> <<>>]

Idle == [act |-> "none", attempt |-> 0, status |-> "idle", outcome |-> NoOutcome]

\* an execution started without a workflowRunTimeout
NoRunTimer == [timeout |-> 0, elapsed |-> 0]

\* no call of monitorWorkflow yet
NoMonitor ==
  [pc |-> "idle", pollIntervalMs |-> 0, timeoutMs |-> 0, startTime |-> 0, now |-> 0,
   client |-> "null", connection |-> "none", closeCalls |-> 0, outcome |-> NoOutcome]

ShutdownEvents == {"SIGINT", "SIGTERM", "uncaughtException", "unhandledRejection"}

NoShutdown == [entered |-> FALSE, isShuttingDown |-> FALSE, stopped |-> FALSE]

\* worker.ts after the module is loaded and main() has set up the handlers:
\* worker = null, isShuttingDown = false, startWorker is connecting, no
\* handler has run
WorkerLoaded ==
  [worker |-> "null", isShuttingDown |-> FALSE, startWorker |-> "creating",
   handlers |-> [e \in ShutdownEvents |-> 0], exit |-> "none",
   shutdownCalls |-> 0, lastShutdown |-> NoShutdown]

Init ==
  /\ input \in [route : Routes, customer : Customers, config : Configs]
  /\ pc = "start"
  /\ result = [delayDetected |-> FALSE, delayMinutes |-> 0, notificationSent |-> FALSE,
               errorMessage |-> "none"]
  /\ failure = NoFailure
  /\ trafficData = NoTrafficData
  /\ notification = NoNotification
  /\ messageSource = "none"
  /\ engine = Idle
  /\ calls = [a \in Activities |-> 0]
  /\ emailLog = [last |-> NoAnswer, uniform |-> TRUE, accepted |-> 0]
  /\ messageLog = NoMessageLog
  /\ direct = NoDirect
  /\ history = NoHistory
  /\ monitor = NoMonitor
  /\ workerProcess = WorkerLoaded
  /\ runTimer = NoRunTimer

----------------------------------------------------------------------------
(* The engine: one action per attempt of the awaited activity *)

\* the history after the workflow scheduled act(args)
Called(h, act, args) ==
  [h EXCEPT !.scheduled = Append(@, [act |-> act, args |-> args])]

\* the history after the outcome of the awaited call e was delivered
Delivering(h, e) ==
  [h EXCEPT !.delivered = Append(@, [act |-> e.act, status |-> e.status,
                                      outcome |-> e.outcome])]

\* the first attempt of an activity the workflow calls through its proxy
Schedule(act) == [act |-> act, attempt |-> 1, status |-> "scheduled", outcome |-> NoOutcome]

Settle_RetriesForever(e, outcome) ==
  IF outcome.kind = "return"
    THEN [e EXCEPT !.status = "completed", !.outcome = outcome]
  ELSE [e EXCEPT !.outcome = outcome]

\* the engine's step after an attempt ended with outcome
Settle(e, outcome) ==
  IF outcome.kind = "return"
    THEN [e EXCEPT !.status = "completed", !.outcome = outcome]
  ELSE IF shouldRetry(activityOptions(e.act), e.attempt, outcome)
    THEN [e EXCEPT !.attempt = @ + 1, !.outcome = outcome]
  ELSE [e EXCEPT !.status = "failed", !.outcome = outcome]

\* the workflow has observed a cancellation: a call it awaited was rejected
\* with cancelledFailure
ScopeCancelled ==
  \/ engine.outcome = cancelledFailure
  \/ \E i \in DOMAIN history.delivered : history.delivered[i].outcome = cancelledFailure

\* an attempt of act can run: the call is scheduled, and not in a cancelled scope
Attempting(act) == engine.status = "scheduled" /\ engine.act = act /\ ~ScopeCancelled

RunGetTrafficData ==
  /\ Attempting("getTrafficData")
  /\ \E response \in TrafficResponses :
       engine' = Settle(engine, getTrafficData(input.route, response))
  /\ UNCHANGED <<monitor, workerProcess, runTimer,
                 input, pc, result, failure, trafficData, notification,
                 messageSource, calls, emailLog, direct, messageLog, history>>

RunCalculateDelay ==
  /\ Attempting("calculateDelay")
  /\ engine' = Settle(engine, calculateDelay(trafficData, input.route.baselineTimeMinutes))
  /\ UNCHANGED <<monitor, workerProcess, runTimer,
                 input, pc, result, failure, trafficData, notification,
                 messageSource, calls, emailLog, direct, messageLog, history>>

RunGenerateDelayMessage ==
  /\ Attempting("generateDelayMessage")
  /\ \E response \in MessageResponses :
       /\ engine' = Settle(engine, generateDelayMessage(notification, response))
       /\ messageLog' = [response |-> response, called |-> aiCalled(notification, response)]
  /\ UNCHANGED <<monitor, workerProcess, runTimer,
                 input, pc, result, failure, trafficData, notification,
                 messageSource, calls, emailLog, direct, history>>

\* how an attempt of sendEmailNotification is entered in emailLog
Answer(n, response) ==
  IF ~providerCalled(n) THEN [kind |-> "invalid", status |-> 0]
  ELSE IF response.kind = "accepted" THEN [kind |-> "accepted", status |-> 0]
  ELSE IF response.status # 0 THEN [kind |-> "http", status |-> response.status]
  ELSE [kind |-> "error", status |-> 0]

\* emailLog after one more attempt: its answer, whether every attempt so far
\* had that same answer, and how many mails the provider has taken
Logged(log, answer, took) ==
  [last |-> answer,
   uniform |-> log.uniform /\ (log.last = NoAnswer \/ log.last = answer),
   accepted |-> log.accepted + (IF took THEN 1 ELSE 0)]

RunSendEmailNotification ==
  /\ Attempting("sendEmailNotification")
  /\ \E response \in EmailResponses :
       /\ engine' = Settle(engine, sendEmailNotification(notification, response))
       /\ emailLog' = Logged(emailLog, Answer(notification, response),
                              providerAccepted(notification, response))
  /\ UNCHANGED <<monitor, workerProcess, runTimer,
                 input, pc, result, failure, trafficData, notification,
                 messageSource, calls, direct, messageLog, history>>

\* the execution is still running after a further seconds: it has no
\* workflowRunTimeout, or the timeout has not passed by then
RunLasts(seconds) ==
  runTimer.timeout = 0 \/ runTimer.elapsed + seconds <= runTimer.timeout

\* the timer after a further seconds; an execution without a
\* workflowRunTimeout keeps no time
Elapsed(timer, seconds) ==
  IF timer.timeout = 0 THEN timer ELSE [timer EXCEPT !.elapsed = @ + seconds]

\* the attempt in progress exceeds startToCloseTimeout; an attempt of
\* sendEmailNotification may time out before or after the provider took the mail
ActivityTimeout ==
  /\ engine.status = "scheduled"
  /\ ~ScopeCancelled
  /\ RunLasts(startToCloseTimeout(engine.act))
  /\ runTimer' = Elapsed(runTimer, startToCloseTimeout(engine.act))
  /\ engine' = Settle(engine, timeoutFailure)
  /\ IF engine.act = "sendEmailNotification"
       THEN \E took \in BOOLEAN :
              /\ took => providerCalled(notification)
              /\ emailLog' = Logged(emailLog, [kind |-> "timeout", status |-> 0], took)
       ELSE UNCHANGED emailLog
  /\ UNCHANGED <<monitor, workerProcess,
                 input, pc, result, failure, trafficData, notification,
                 messageSource, calls, direct, messageLog, history>>

----------------------------------------------------------------------------
(* freightDelayMonitorWorkflow: one action per stretch between two awaits *)

exceedsDelayThreshold_Inclusive(delayMinutes, threshold) == delayMinutes >= threshold

exceedsDelayThreshold_ValidThresholdOnly(delayMinutes, threshold) ==
  threshold > 0 /\ delayMinutes > threshold

\* delayMinutes > config.delayThresholdMinutes
exceedsDelayThreshold(delayMinutes, threshold) == delayMinutes > threshold

workflowFallbackMessage_KeepsEmpty(config, route, delayMinutes) == <<>>

\* the catch block around generateDelayMessage: the template of the config
workflowFallbackMessage(config, route, delayMinutes) ==
  Replace(Replace(Replace(config.fallbackMessage,
     "{delayMinutes}", NumberToString(delayMinutes)),
     "{origin}", route.origin),
     "{destination}", route.destination)

emailStepResult_Silent(res, notificationSuccess) ==
  [res EXCEPT !.notificationSent = notificationSuccess]

emailStepResult_AlwaysError(res, notificationSuccess) ==
  [res EXCEPT !.notificationSent = notificationSuccess,
              !.errorMessage = "Failed to send email notification after all retry attempts"]

\* result after sendEmailNotification returned notificationSuccess
emailStepResult(res, notificationSuccess) ==
  [res EXCEPT !.notificationSent = notificationSuccess,
              !.errorMessage = IF notificationSuccess THEN @
                               ELSE "Failed to send email notification after all retry attempts"]

\* the ApplicationFailure the outer catch block throws
workflowFailure(route, customer) ==
  [type |-> "WorkflowExecutionError", nonRetryable |-> FALSE,
   routeId |-> route.routeId, customerId |-> customer.customerId]

StartWorkflow ==
  /\ pc = "start"
  /\ direct = NoDirect
  /\ pc' = "awaitTraffic"
  /\ engine' = Schedule("getTrafficData")
  /\ calls' = [calls EXCEPT !["getTrafficData"] = @ + 1]
  /\ UNCHANGED <<monitor, workerProcess, runTimer,
                 input, result, failure, trafficData, notification, messageSource,
                 emailLog, direct, messageLog>>
  /\ history' = Called(history, "getTrafficData", <<input.route>>)

WfTrafficDone_NoAwait ==
  /\ pc = "awaitTraffic"
  /\ trafficData' = IF engine.status = "completed" THEN engine.outcome.value
                    ELSE NoTrafficData
  /\ pc' = "awaitDelay"
  /\ engine' = Schedule("calculateDelay")
  /\ calls' = [calls EXCEPT !["calculateDelay"] = @ + 1]
  /\ UNCHANGED <<monitor, workerProcess, runTimer,
                 input, result, failure, notification, messageSource, emailLog,
                 direct, messageLog>>
  /\ history' = Called(Delivering(history, engine), "calculateDelay",
                     <<trafficData', input.route.baselineTimeMinutes>>)

WfTrafficDone ==
  /\ pc = "awaitTraffic"
  /\ engine.status = "completed"
  /\ trafficData' = engine.outcome.value
  /\ pc' = "awaitDelay"
  /\ engine' = Schedule("calculateDelay")
  /\ calls' = [calls EXCEPT !["calculateDelay"] = @ + 1]
  /\ UNCHANGED <<monitor, workerProcess, runTimer,
                 input, result, failure, notification, messageSource, emailLog,
                 direct, messageLog>>
  /\ history' = Called(Delivering(history, engine), "calculateDelay",
                     <<trafficData', input.route.baselineTimeMinutes>>)

WfDelayDone_ClockDependent ==
  /\ pc = "awaitDelay"
  /\ engine.status = "completed"
  /\ \E late \in BOOLEAN :
       LET delayMinutes == engine.outcome.value
           exceeds == late /\ delayMinutes > 0
       IN  /\ result' = [result EXCEPT !.delayMinutes = delayMinutes,
                                       !.delayDetected = exceeds]
           /\ IF ~exceeds
                THEN /\ pc' = "completed"
                     /\ engine' = [engine EXCEPT !.status = "delivered"]
                     /\ UNCHANGED <<notification, calls>>
                ELSE /\ pc' = "awaitMessage"
                     /\ notification' = [customerId |-> input.customer.customerId,
                                         customerEmail |-> input.customer.customerEmail,
                                         route |-> input.route,
                                         delayMinutes |-> delayMinutes,
                                         message |-> <<>>]
                     /\ engine' = Schedule("generateDelayMessage")
                     /\ calls' = [calls EXCEPT !["generateDelayMessage"] = @ + 1]
  /\ UNCHANGED <<monitor, workerProcess, runTimer,
                 input, failure, trafficData, messageSource, emailLog, direct,
                 messageLog>>
  /\ history' = IF pc' = "completed" THEN Delivering(history, engine)
                ELSE Called(Delivering(history, engine), "generateDelayMessage",
                            <<notification'>>)

WfDelayDone ==
  /\ pc = "awaitDelay"
  /\ engine.status = "completed"
  /\ LET delayMinutes == engine.outcome.value
         exceeds == exceedsDelayThreshold(delayMinutes, input.config.delayThresholdMinutes)
     IN  /\ result' = [result EXCEPT !.delayMinutes = delayMinutes, !.delayDetected = exceeds]
         /\ IF ~exceeds
              THEN /\ pc' = "completed"
                   /\ engine' = [engine EXCEPT !.status = "delivered"]
                   /\ UNCHANGED <<notification, calls>>
              ELSE /\ pc' = "awaitMessage"
                   /\ notification' = [customerId |-> input.customer.customerId,
                                       customerEmail |-> input.customer.customerEmail,
                                       route |-> input.route,
                                       delayMinutes |-> delayMinutes,
                                       message |-> <<>>]
                   /\ engine' = Schedule("generateDelayMessage")
                   /\ calls' = [calls EXCEPT !["generateDelayMessage"] = @ + 1]
  /\ UNCHANGED <<monitor, workerProcess, runTimer,
                 input, failure, trafficData, messageSource, emailLog, direct,
                 messageLog>>
  /\ history' = IF pc' = "completed" THEN Delivering(history, engine)
                ELSE Called(Delivering(history, engine), "generateDelayMessage",
                            <<notification'>>)

WfMessageDone ==
  /\ pc = "awaitMessage"
  /\ engine.status \in {"completed", "failed"}
  /\ IF engine.status = "completed"
       THEN /\ messageSource' = "ai"
            /\ notification' = [notification EXCEPT !.message = engine.outcome.value]
       ELSE /\ messageSource' = "fallback"
            /\ notification' = [notification EXCEPT !.message =
                 workflowFallbackMessage(input.config, input.route, notification.delayMinutes)]
  /\ pc' = "awaitEmail"
  /\ engine' = Schedule("sendEmailNotification")
  /\ calls' = [calls EXCEPT !["sendEmailNotification"] = @ + 1]
  /\ UNCHANGED <<monitor, workerProcess, runTimer,
                 input, result, failure, trafficData, emailLog, direct, messageLog>>
  /\ history' = Called(Delivering(history, engine), "sendEmailNotification",
                     <<notification'>>)

WfEmailDone ==
  /\ pc = "awaitEmail"
  /\ engine.status = "completed"
  /\ result' = emailStepResult(result, engine.outcome.value)
  /\ pc' = "completed"
  /\ engine' = [engine EXCEPT !.status = "delivered"]
  /\ UNCHANGED <<monitor, workerProcess, runTimer,
                 input, failure, trafficData, notification, messageSource, calls,
                 emailLog, direct, messageLog>>
  /\ history' = Delivering(history, engine)

WfCatch_Swallow ==
  /\ pc \in {"awaitTraffic", "awaitDelay", "awaitEmail"}
  /\ engine.status = "failed"
  /\ result' = [result EXCEPT !.errorMessage = "Activity task failed"]
  /\ pc' = "completed"
  /\ engine' = [engine EXCEPT !.status = "delivered"]
  /\ UNCHANGED <<monitor, workerProcess, runTimer,
                 input, failure, trafficData, notification, messageSource, calls,
                 emailLog, direct, messageLog>>
  /\ history' = Delivering(history, engine)

WfCatch_NoInnerCatch ==
  /\ pc \in {"awaitTraffic", "awaitDelay", "awaitMessage", "awaitEmail"}
  /\ engine.status = "failed"
  /\ result' = [result EXCEPT !.errorMessage = "Activity task failed"]
  /\ failure' = workflowFailure(input.route, input.customer)
  /\ pc' = "failed"
  /\ engine' = [engine EXCEPT !.status = "delivered"]
  /\ UNCHANGED <<monitor, workerProcess, runTimer,
                 input, trafficData, notification, messageSource, calls, emailLog,
                 direct, messageLog>>
  /\ history' = Delivering(history, engine)

\* the outer catch block: a failed getTrafficData, calculateDelay or
\* sendEmailNotification is rethrown as an ApplicationFailure
WfCatch ==
  /\ pc \in {"awaitTraffic", "awaitDelay", "awaitEmail"}
  /\ engine.status = "failed"
  /\ result' = [result EXCEPT !.errorMessage = "Activity task failed"]
  /\ failure' = workflowFailure(input.route, input.customer)
  /\ pc' = "failed"
  /\ engine' = [engine EXCEPT !.status = "delivered"]
  /\ UNCHANGED <<monitor, workerProcess, runTimer,
                 input, trafficData, notification, messageSource, calls, emailLog,
                 direct, messageLog>>
  /\ history' = Delivering(history, engine)

----------------------------------------------------------------------------
(* The workflow function as the engine replays it: run from its input      *)
(* against the outcomes recorded in the history, it comes to the calls it  *)
(* scheduled and to its position, result and failure.                      *)

\* the result object the workflow starts with
initialResult ==
  [delayDetected |-> FALSE, delayMinutes |-> 0, notificationSent |-> FALSE,
   errorMessage |-> "none"]

ReplayWorkflow(in, delivered) ==
  LET At(sched, at, res, f) ==
        [scheduled |-> sched, pc |-> at, result |-> res, failure |-> f]
      Fail(sched, res) ==
        At(sched, "failed", [res EXCEPT !.errorMessage = "Activity task failed"],
           workflowFailure(in.route, in.customer))
      c1 == [act |-> "getTrafficData", args |-> <<in.route>>]
  IN
  IF Len(delivered) = 0 THEN At(<<c1>>, "awaitTraffic", initialResult, NoFailure)
  ELSE IF delivered[1].status = "failed" THEN Fail(<<c1>>, initialResult)
  ELSE
  LET c2 == [act |-> "calculateDelay",
             args |-> <<delivered[1].outcome.value, in.route.baselineTimeMinutes>>]
  IN
  IF Len(delivered) = 1 THEN At(<<c1, c2>>, "awaitDelay", initialResult, NoFailure)
  ELSE IF delivered[2].status = "failed" THEN Fail(<<c1, c2>>, initialResult)
  ELSE
  LET delayMinutes == delivered[2].outcome.value
      exceeds == exceedsDelayThreshold(delayMinutes, in.config.delayThresholdMinutes)
      r2 == [initialResult EXCEPT !.delayMinutes = delayMinutes,
                                  !.delayDetected = exceeds]
      n0 == [customerId |-> in.customer.customerId,
             customerEmail |-> in.customer.customerEmail,
             route |-> in.route,
             delayMinutes |-> delayMinutes,
             message |-> <<>>]
      c3 == [act |-> "generateDelayMessage", args |-> <<n0>>]
  IN
  IF ~exceeds THEN At(<<c1, c2>>, "completed", r2, NoFailure)
  ELSE IF Len(delivered) = 2 THEN At(<<c1, c2, c3>>, "awaitMessage", r2, NoFailure)
  ELSE
  LET n1 == [n0 EXCEPT !.message =
               IF delivered[3].status = "completed" THEN delivered[3].outcome.value
               ELSE workflowFallbackMessage(in.config, in.route, delayMinutes)]
      c4 == [act |-> "sendEmailNotification", args |-> <<n1>>]
  IN
  IF Len(delivered) = 3 THEN At(<<c1, c2, c3, c4>>, "awaitEmail", r2, NoFailure)
  ELSE IF delivered[4].status = "failed" THEN Fail(<<c1, c2, c3, c4>>, r2)
  ELSE At(<<c1, c2, c3, c4>>, "completed",
          emailStepResult(r2, delivered[4].outcome.value), NoFailure)

----------------------------------------------------------------------------
(* Direct calls of the delay-analysis operations.  A run is one workflow   *)
(* execution or one direct call.                                           *)

DirectMinutes == (0 - 1)..MaxDirect

DirectTrafficData ==
  [currentTravelTimeMinutes : DirectMinutes, delayMinutes : {0},
   trafficConditions : {<<>>, <<"Light traffic delays">>},
   retrievedAt : {"date", "invalid"}]

DirectCalculateDelay ==
  /\ pc = "start"
  /\ direct = NoDirect
  /\ \E data \in DirectTrafficData : \E baseline \in DirectMinutes :
       direct' = [op |-> "calculateDelay", data |-> data, baseline |-> baseline,
                  outcome |-> calculateDelay(data, baseline)]
  /\ UNCHANGED <<monitor, workerProcess, runTimer,
                 input, pc, result, failure, trafficData, notification,
                 messageSource, engine, calls, emailLog, messageLog, history>>

\* delays on and next to the boundaries of the severity classes
SeverityDelays == {0, 1, 10, 11, 19, 20, 30, 31, 60, 61}

\* calculateDelay for a travel time that is delay minutes over the baseline
DirectLogDelaySeverity ==
  /\ pc = "start"
  /\ direct = NoDirect
  /\ \E delay \in SeverityDelays : \E baseline \in 1..MaxBaseline :
       LET data == [currentTravelTimeMinutes |-> baseline + delay, delayMinutes |-> delay,
                    trafficConditions |-> trafficConditionsOf(delay),
                    retrievedAt |-> "date"]
       IN  direct' = [op |-> "logDelaySeverity", delay |-> delay, baseline |-> baseline,
                      severity |-> loggedSeverity(data, baseline),
                      outcome |-> calculateDelay(data, baseline)]
  /\ UNCHANGED <<monitor, workerProcess, runTimer,
                 input, pc, result, failure, trafficData, notification,
                 messageSource, engine, calls, emailLog, messageLog, history>>

DirectExceedsThreshold ==
  /\ pc = "start"
  /\ direct = NoDirect
  /\ \E delay \in DirectMinutes : \E threshold \in DirectMinutes :
       direct' = [op |-> "exceedsThreshold", delay |-> delay, threshold |-> threshold,
                  outcome |-> exceedsThreshold(delay, threshold)]
  /\ UNCHANGED <<monitor, workerProcess, runTimer,
                 input, pc, result, failure, trafficData, notification,
                 messageSource, engine, calls, emailLog, messageLog, history>>

DirectGetTrafficData ==
  /\ pc = "start"
  /\ direct = NoDirect
  /\ \E response \in TrafficResponses :
       direct' = [op |-> "getTrafficData", route |-> input.route, response |-> response,
                  outcome |-> getTrafficData(input.route, response)]
  /\ UNCHANGED <<monitor, workerProcess, runTimer,
                 input, pc, result, failure, trafficData, notification,
                 messageSource, engine, calls, emailLog, messageLog, history>>

\* the notifications of a direct call of an activity: the customer and the
\* route of the input, or no route; a negative or a positive delay; no message
\* yet, or one
DirectDelays == {0 - 1, MaxDirect}

DirectNotifications ==
  [customerId : {input.customer.customerId},
   customerEmail : {input.customer.customerEmail},
   route : {input.route, NoRoute},
   delayMinutes : DirectDelays,
   message : {<<>>, <<"Your delivery is delayed">>}]

DirectGenerateDelayMessage ==
  /\ pc = "start"
  /\ direct = NoDirect
  /\ \E n \in DirectNotifications : \E response \in MessageResponses :
       direct' = [op |-> "generateDelayMessage", n |-> n, response |-> response,
                  called |-> aiCalled(n, response),
                  outcome |-> generateDelayMessage(n, response)]
  /\ UNCHANGED <<monitor, workerProcess, runTimer,
                 input, pc, result, failure, trafficData, notification,
                 messageSource, engine, calls, emailLog, messageLog, history>>

\* setFallbackMessage(template), then generateDelayMessage(n) of an activity
\* without a provider credential, which returns generateFallbackMessage(n)
DirectGenerateFallbackMessage ==
  /\ pc = "start"
  /\ direct = NoDirect
  /\ \E template \in FallbackTemplates : \E n \in DirectNotifications :
       /\ ~IsBlank(template)
       /\ validateDelayNotification(n) = "ok"
       /\ direct' = [op |-> "generateFallbackMessage", template |-> template, n |-> n,
                     outcome |-> Returned(fallbackFromTemplate(template, n))]
  /\ UNCHANGED <<monitor, workerProcess, runTimer,
                 input, pc, result, failure, trafficData, notification,
                 messageSource, engine, calls, emailLog, messageLog, history>>

\* the provider's behaviours in a direct call: those of an execution, and
\* two more statuses
DirectEmailResponses ==
  EmailResponses
    \cup [kind : {"error"}, code : {""}, status : {404, 500}, message : EmailMessages]

DirectSendEmailNotification ==
  /\ pc = "start"
  /\ direct = NoDirect
  /\ \E n \in DirectNotifications : \E response \in DirectEmailResponses :
       direct' = [op |-> "sendEmailNotification", n |-> n, response |-> response,
                  called |-> providerCalled(n),
                  after |-> notificationAfter(n, response),
                  outcome |-> sendEmailNotification(n, response)]
  /\ UNCHANGED <<monitor, workerProcess, runTimer,
                 input, pc, result, failure, trafficData, notification,
                 messageSource, engine, calls, emailLog, messageLog, history>>

----------------------------------------------------------------------------

Next ==
  \/ StartWorkflow
  \/ RunGetTrafficData
  \/ RunCalculateDelay
  \/ RunGenerateDelayMessage
  \/ RunSendEmailNotification
  \/ ActivityTimeout
  \/ WfTrafficDone
  \/ WfDelayDone
  \/ WfMessageDone
  \/ WfEmailDone
  \/ WfCatch
  \/ DirectCalculateDelay
  \/ DirectExceedsThreshold
  \/ DirectGenerateDelayMessage
  \/ DirectSendEmailNotification
  \/ DirectGetTrafficData
  \/ DirectGenerateFallbackMessage
  \/ DirectLogDelaySeverity

Spec == Init /\ [][Next]_vars

----------------------------------------------------------------------------
(* Cancellation of an execution the client started *)

\* cancelWorkflow(workflowId): handle.cancel() while the execution awaits an
\* activity call; the awaited call is rejected with cancelledFailure
CancelWorkflow ==
  /\ pc \in {"awaitTraffic", "awaitDelay", "awaitMessage", "awaitEmail"}
  /\ engine.status = "scheduled"
  /\ ~ScopeCancelled
  /\ engine' = [engine EXCEPT !.status = "failed", !.outcome = cancelledFailure]
  /\ UNCHANGED <<monitor, workerProcess, runTimer,
                 input, pc, result, failure, trafficData, notification,
                 messageSource, calls, emailLog, direct, messageLog, history>>

\* a proxy call made after the cancellation was observed (the call that
\* follows the inner catch block) is rejected at once: no attempt is made
WfCallInCancelledScope ==
  /\ engine.status = "scheduled"
  /\ ScopeCancelled
  /\ engine' = [engine EXCEPT !.status = "failed", !.outcome = cancelledFailure]
  /\ UNCHANGED <<monitor, workerProcess, runTimer,
                 input, pc, result, failure, trafficData, notification,
                 messageSource, calls, emailLog, direct, messageLog, history>>

\* the status the engine reports for the execution: CANCELLED only for an
\* execution that ended by throwing the cancellation itself
executionStatus ==
  IF pc = "completed" THEN "COMPLETED"
  ELSE IF pc = "timedOut" THEN "TIMED_OUT"
  ELSE IF pc = "failed"
    THEN (IF failure.type = "CancelledFailure" THEN "CANCELLED" ELSE "FAILED")
  ELSE "RUNNING"

\* the executions the client starts: startWorkflow passes validateInput first
ClientInit == Init /\ validateInput(input) = "ok"

CancelNext ==
  \/ Next
  \/ CancelWorkflow
  \/ WfCallInCancelledScope

CancelSpec == ClientInit /\ [][CancelNext]_vars

----------------------------------------------------------------------------
(* Executions the client starts run under workflowRunTimeout *)

\* client.startWorkflow(route, customer, config): validateInput, then
\* client.workflow.start with workflowRunTimeout; an input that fails the
\* validation starts no execution
ClientStartWorkflow ==
  /\ pc = "start"
  /\ direct = NoDirect
  /\ IF validateInput(input) = "ok"
       THEN /\ pc' = "awaitTraffic"
            /\ engine' = Schedule("getTrafficData")
            /\ calls' = [calls EXCEPT !["getTrafficData"] = @ + 1]
            /\ history' = Called(history, "getTrafficData", <<input.route>>)
            /\ runTimer' = [timeout |-> workflowRunTimeout, elapsed |-> 0]
       ELSE /\ pc' = "rejected"
            /\ UNCHANGED <<engine, calls, history, runTimer>>
  /\ UNCHANGED <<monitor, workerProcess,
                 input, result, failure, trafficData, notification, messageSource,
                 emailLog, direct, messageLog>>

\* the run timeout passes while an attempt is in progress that can last that
\* long: the engine closes the execution as TIMED_OUT, whatever the workflow
\* function was waiting for
WorkflowRunTimeout ==
  /\ runTimer.timeout > 0
  /\ pc \in {"awaitTraffic", "awaitDelay", "awaitMessage", "awaitEmail"}
  /\ engine.status = "scheduled"
  /\ runTimer.elapsed + startToCloseTimeout(engine.act) >= runTimer.timeout
  /\ pc' = "timedOut"
  /\ engine' = [engine EXCEPT !.status = "closed"]
  /\ runTimer' = [runTimer EXCEPT !.elapsed = runTimer.timeout]
  /\ UNCHANGED <<monitor, workerProcess,
                 input, result, failure, trafficData, notification, messageSource,
                 calls, emailLog, direct, messageLog, history>>

\* every attempt of an activity ends: it returns, throws or times out, unless
\* the run timeout ends the execution first
AttemptEnds ==
  \/ RunGetTrafficData
  \/ RunCalculateDelay
  \/ RunGenerateDelayMessage
  \/ RunSendEmailNotification
  \/ ActivityTimeout
  \/ WorkflowRunTimeout

\* the worker runs the workflow function on to its next await
WorkflowStep ==
  \/ WfTrafficDone
  \/ WfDelayDone
  \/ WfMessageDone
  \/ WfEmailDone
  \/ WfCatch

TimedNext ==
  \/ Next
  \/ ClientStartWorkflow
  \/ WorkflowRunTimeout

\* the executions are those of the inputs the client accepts, started with
\* or without the client
TimedSpec ==
  ClientInit /\ [][TimedNext]_vars /\ WF_vars(AttemptEnds) /\ WF_vars(WorkflowStep)

----------------------------------------------------------------------------
(* The client's monitorWorkflow: one action per stretch between two awaits *)

\* the status names of WorkflowStatus
WorkflowStatuses == {"RUNNING", "COMPLETED", "FAILED", "CANCELLED", "TERMINATED", "TIMED_OUT"}

\* the list monitorWorkflow tests a status against
TerminalStatuses == {"COMPLETED", "FAILED", "CANCELLED", "TERMINATED", "TIMED_OUT"}

\* what handle.describe() answers to one poll: a description with a status
\* name, or an error
DescribeAnswers == [kind : {"description"}, name : WorkflowStatuses] \cup {[kind |-> "error"]}

\* how long one awaited call takes beyond what it waits for
Durations == 0..MaxDuration

\* getWorkflowStatus(workflowId), given what describe() answers
getWorkflowStatus(answer) ==
  IF answer.kind = "error"
    THEN Thrown("Error", "Error getting workflow status")
  ELSE Returned([status |-> answer.name,
                 error |-> IF answer.name = "FAILED"
                             THEN "Workflow failed with unknown error" ELSE "none"])

connectError == Thrown("Error", "Failed to connect to Temporal server")

monitoringTimeout == Thrown("Error", "Workflow monitoring timed out")

\* monitorWorkflow(workflowId, pollIntervalMs, timeoutMs) is called
MonitorWorkflow ==
  /\ monitor.pc = "idle"
  /\ \E pollIntervalMs \in 0..MaxPollIntervalMs : \E timeoutMs \in 0..MaxTimeoutMs :
       monitor' = [monitor EXCEPT !.pc = "create", !.pollIntervalMs = pollIntervalMs,
                                  !.timeoutMs = timeoutMs]
  /\ UNCHANGED <<workerProcess, runTimer, input, pc, result, failure, trafficData, notification,
                 messageSource, engine, calls, emailLog, messageLog, direct, history>>

\* await FreightDelayMonitorClient.create(...): the connection is made and
\* startTime is read, or create throws and client stays null
MonitorCreate ==
  /\ monitor.pc = "create"
  /\ \/ \E d \in Durations :
          monitor' = [monitor EXCEPT !.pc = "while", !.client = "created",
                                     !.connection = "open", !.now = @ + d,
                                     !.startTime = monitor.now + d]
     \/ monitor' = [monitor EXCEPT !.pc = "finally", !.outcome = connectError]
  /\ UNCHANGED <<workerProcess, runTimer, input, pc, result, failure, trafficData, notification,
                 messageSource, engine, calls, emailLog, messageLog, direct, history>>

\* while (Date.now() - startTime < timeoutMs), and the throw after the loop
MonitorWhile ==
  /\ monitor.pc = "while"
  /\ monitor' = IF monitor.now - monitor.startTime < monitor.timeoutMs
                  THEN [monitor EXCEPT !.pc = "getWorkflowStatus"]
                ELSE [monitor EXCEPT !.pc = "finally", !.outcome = monitoringTimeout]
  /\ UNCHANGED <<workerProcess, runTimer, input, pc, result, failure, trafficData, notification,
                 messageSource, engine, calls, emailLog, messageLog, direct, history>>

\* await client.getWorkflowStatus(workflowId), and the test of its status
MonitorGetWorkflowStatus ==
  /\ monitor.pc = "getWorkflowStatus"
  /\ \E d \in Durations : \E answer \in DescribeAnswers :
       LET status == getWorkflowStatus(answer)
       IN  monitor' =
             IF status.kind = "throw"
               THEN [monitor EXCEPT !.pc = "finally", !.now = @ + d, !.outcome = status]
             ELSE IF status.value.status \in TerminalStatuses
               THEN [monitor EXCEPT !.pc = "finally", !.now = @ + d, !.outcome = status]
             ELSE [monitor EXCEPT !.pc = "sleep", !.now = @ + d]
  /\ UNCHANGED <<workerProcess, runTimer, input, pc, result, failure, trafficData, notification,
                 messageSource, engine, calls, emailLog, messageLog, direct, history>>

\* await new Promise(resolve => setTimeout(resolve, pollIntervalMs))
MonitorSleep ==
  /\ monitor.pc = "sleep"
  /\ \E d \in Durations :
       monitor' = [monitor EXCEPT !.pc = "while", !.now = @ + monitor.pollIntervalMs + d]
  /\ UNCHANGED <<workerProcess, runTimer, input, pc, result, failure, trafficData, notification,
                 messageSource, engine, calls, emailLog, messageLog, direct, history>>

MonitorFinally_CloseOnReturnOnly ==
  /\ monitor.pc = "finally"
  /\ IF monitor.client # "null" /\ monitor.outcome.kind = "return"
       THEN \E closed \in BOOLEAN :
              monitor' = [monitor EXCEPT !.pc = "done", !.closeCalls = @ + 1,
                                         !.connection = IF closed THEN "closed" ELSE @]
     ELSE monitor' = [monitor EXCEPT !.pc = "done"]
  /\ UNCHANGED <<workerProcess, runTimer, input, pc, result, failure, trafficData, notification,
                 messageSource, engine, calls, emailLog, messageLog, direct, history>>

\* finally { if (client) await client.close() }: close() closes the
\* connection, or logs the error of connection.close() and returns
MonitorFinally ==
  /\ monitor.pc = "finally"
  /\ IF monitor.client # "null"
       THEN \E closed \in BOOLEAN :
              monitor' = [monitor EXCEPT !.pc = "done", !.closeCalls = @ + 1,
                                         !.connection = IF closed THEN "closed" ELSE @]
     ELSE monitor' = [monitor EXCEPT !.pc = "done"]
  /\ UNCHANGED <<workerProcess, runTimer, input, pc, result, failure, trafficData, notification,
                 messageSource, engine, calls, emailLog, messageLog, direct, history>>

\* an input the client's validateInput accepts; the calls below do not read it
SampleInput ==
  [route |-> [routeId |-> <<"R">>, origin |-> <<"A">>, destination |-> <<"B">>,
              baselineTimeMinutes |-> 1],
   customer |-> [customerId |-> <<"C">>, customerEmail |-> <<"a", "@", "b", ".", "c">>],
   config |-> [delayThresholdMinutes |-> 1,
               fallbackMessage |-> <<"Delay of ", "{delayMinutes}", " from ", "{origin}",
                                     " to ", "{destination}">>]]

\* a process that runs no workflow execution of its own
ProcessInit == Init /\ input = SampleInput

MonitorNext ==
  \/ MonitorWorkflow
  \/ MonitorCreate
  \/ MonitorWhile
  \/ MonitorGetWorkflowStatus
  \/ MonitorSleep
  \/ MonitorFinally

MonitorSpec == ProcessInit /\ [][MonitorNext]_vars

----------------------------------------------------------------------------
(* worker.ts: one action per stretch between two awaits *)

\* cleanup()
cleanup(p) == [p EXCEPT !.worker = "null"]

shutdown_IgnoresFlag(p) ==
  cleanup([p EXCEPT !.isShuttingDown = TRUE,
                    !.shutdownCalls = IF p.worker # "null" THEN @ + 1 ELSE @,
                    !.lastShutdown = [entered |-> TRUE, isShuttingDown |-> p.isShuttingDown,
                                      stopped |-> p.worker # "null"]])

\* shutdown() up to its last await: nothing is awaited between the test of
\* isShuttingDown and the assignment in cleanup(). lastShutdown records what
\* this call found and whether it called worker.shutdown()
shutdown(p) ==
  IF p.isShuttingDown
    THEN [p EXCEPT !.lastShutdown = [entered |-> TRUE, isShuttingDown |-> TRUE,
                                     stopped |-> FALSE]]
  ELSE cleanup([p EXCEPT !.isShuttingDown = TRUE,
                         !.shutdownCalls = IF p.worker # "null" THEN @ + 1 ELSE @,
                         !.lastShutdown = [entered |-> TRUE, isShuttingDown |-> FALSE,
                                           stopped |-> p.worker # "null"]])

\* how many handlers have run so far
RECURSIVE Handled(_, _)
Handled(h, events) ==
  IF events = {} THEN 0
  ELSE LET e == CHOOSE x \in events : TRUE
       IN  h[e] + Handled(h, events \ {e})

\* the exit code of the handler of an event
exitCode(e) == IF e \in {"SIGINT", "SIGTERM"} THEN "0" ELSE "1"

\* worker = await Worker.create(...), then worker.run() is awaited
WorkerCreate ==
  /\ workerProcess.exit = "none"
  /\ workerProcess.startWorker = "creating"
  /\ workerProcess' = [workerProcess EXCEPT !.worker = "created", !.startWorker = "running"]
  /\ UNCHANGED <<monitor, runTimer, input, pc, result, failure, trafficData, notification,
                 messageSource, engine, calls, emailLog, messageLog, direct, history>>

\* the catch block of startWorker: cleanup(), process.exit(1)
WorkerFailed ==
  /\ workerProcess.exit = "none"
  /\ workerProcess.startWorker \in {"creating", "running"}
  /\ workerProcess' = [cleanup(workerProcess) EXCEPT !.startWorker = "failed", !.exit = "1"]
  /\ UNCHANGED <<monitor, runTimer, input, pc, result, failure, trafficData, notification,
                 messageSource, engine, calls, emailLog, messageLog, direct, history>>

\* a handler of setupShutdownHandlers starts: it logs and calls shutdown()
ShutdownHandler ==
  /\ workerProcess.exit = "none"
  /\ Handled(workerProcess.handlers, ShutdownEvents) < MaxSignals
  /\ \E e \in ShutdownEvents :
       workerProcess' = [shutdown(workerProcess) EXCEPT !.handlers[e] = @ + 1]
  /\ UNCHANGED <<monitor, runTimer, input, pc, result, failure, trafficData, notification,
                 messageSource, engine, calls, emailLog, messageLog, direct, history>>

\* a handler resumes after await shutdown(): process.exit(code)
HandlerExit ==
  /\ workerProcess.exit = "none"
  /\ \E e \in ShutdownEvents :
       /\ workerProcess.handlers[e] > 0
       /\ workerProcess' = [workerProcess EXCEPT !.exit = exitCode(e)]
  /\ UNCHANGED <<monitor, runTimer, input, pc, result, failure, trafficData, notification,
                 messageSource, engine, calls, emailLog, messageLog, direct, history>>

WorkerNext ==
  \/ WorkerCreate
  \/ WorkerFailed
  \/ ShutdownHandler
  \/ HandlerExit

WorkerSpec == ProcessInit /\ [][WorkerNext]_vars

----------------------------------------------------------------------------
(* Properties *)

Terminal == pc \in {"completed", "failed"}

\* the workflow has received the delay calculateDelay computed
DelayKnown ==
  /\ calls["calculateDelay"] = 1
  /\ pc \in {"awaitMessage", "awaitEmail", "completed", "failed"}
  /\ ~(pc = "failed" /\ engine.act = "calculateDelay")

\* C1: an execution whose computed delay is at most the threshold completes
\* with delayDetected = false and notificationSent = false, and calls neither
\* generateDelayMessage nor sendEmailNotification.
C1_NoNotificationPath ==
  (DelayKnown /\ result.delayMinutes <= input.config.delayThresholdMinutes)
    => /\ pc = "completed"
       /\ failure = NoFailure
       /\ result.delayDetected = FALSE
       /\ result.notificationSent = FALSE
       /\ calls["generateDelayMessage"] = 0
       /\ calls["sendEmailNotification"] = 0
       /\ emailLog.last = NoAnswer

C1_Witness ==
  /\ pc = "completed"
  /\ DelayKnown
  /\ result.delayMinutes > 0
  /\ result.delayMinutes <= input.config.delayThresholdMinutes

\* C2: for delay >= 0 and threshold > 0, exceedsThreshold returns true exactly
\* when delay > threshold; a delay equal to the threshold yields false, and in
\* the workflow it triggers no notification.
C2_ThresholdStrictness ==
  /\ (direct.op = "exceedsThreshold" /\ direct.delay >= 0 /\ direct.threshold > 0)
       => /\ direct.outcome.kind = "return"
          /\ direct.outcome.value = (direct.delay > direct.threshold)
          /\ (direct.delay = direct.threshold => direct.outcome.value = FALSE)
  /\ (DelayKnown /\ result.delayMinutes = input.config.delayThresholdMinutes)
       => /\ result.delayDetected = FALSE
          /\ calls["generateDelayMessage"] = 0
          /\ calls["sendEmailNotification"] = 0

C2_Witness ==
  /\ direct.op = "exceedsThreshold"
  /\ direct.threshold > 0
  /\ direct.delay = direct.threshold
  /\ direct.outcome.kind = "return"
  /\ direct.outcome.value = FALSE

C4_SentOnlyIfAccepted ==
  result.notificationSent
    => /\ calls["sendEmailNotification"] = 1
       /\ engine.act = "sendEmailNotification"
       /\ emailLog.last.kind = "accepted"
       /\ emailLog.accepted >= 1
       /\ validateDelayNotification(notification) = "ok"

C4_Witness ==
  /\ pc = "completed"
  /\ result.notificationSent
  /\ emailLog.last.kind = "accepted"

\* the activity call the workflow awaited last has ended and the workflow has
\* taken its outcome
Delivered(act) == engine.act = act /\ engine.status = "delivered"

\* C5: if sendEmailNotification returns false the workflow does not fail: it
\* completes with notificationSent = false and an errorMessage; if
\* sendEmailNotification raises after its retries the workflow fails and returns
\* no result.
C5_EmailBifurcation ==
  Delivered("sendEmailNotification")
    => /\ (engine.outcome.kind = "return" /\ engine.outcome.value = FALSE)
            => /\ pc = "completed"
               /\ failure = NoFailure
               /\ result.notificationSent = FALSE
               /\ result.errorMessage
                    = "Failed to send email notification after all retry attempts"
       /\ engine.outcome.kind = "throw"
            => /\ pc = "failed"
               /\ failure.type = "WorkflowExecutionError"

C5_Witness ==
  /\ Delivered("sendEmailNotification")
  /\ engine.outcome.kind = "return"
  /\ engine.outcome.value = FALSE
  /\ pc = "completed"
  /\ emailLog.last.kind = "http"

\* C6: a failure of getTrafficData (or of calculateDelay or
\* sendEmailNotification, which the workflow does not handle either) that
\* reaches the workflow is fatal: the execution fails with a
\* WorkflowExecutionError carrying route id and customer id, and returns no
\* result.
C6_FailureIsFatal ==
  /\ (/\ engine.act \in {"getTrafficData", "calculateDelay", "sendEmailNotification"}
      /\ engine.outcome.kind = "throw"
      /\ engine.status \in {"failed", "delivered"})
       => /\ pc # "completed"
          /\ engine.status = "delivered"
               => /\ pc = "failed"
                  /\ failure.type = "WorkflowExecutionError"
                  /\ failure.routeId = input.route.routeId
                  /\ failure.customerId = input.customer.customerId
  /\ pc = "completed" => failure = NoFailure
  /\ pc = "failed" => failure.type = "WorkflowExecutionError"

C6_Witness ==
  /\ pc = "failed"
  /\ Delivered("getTrafficData")
  /\ engine.outcome.kind = "throw"
  /\ failure.type = "WorkflowExecutionError"

Http(status) == [kind |-> "http", status |-> status]

\* every attempt of sendEmailNotification so far was answered with status
EveryAnswer(status) == emailLog.last = Http(status) /\ emailLog.uniform

\* C7: when the e-mail provider answers every attempt with 503,
\* sendEmailNotification is retried up to 6 attempts and only then the
\* workflow fails; when it answers 401, sendEmailNotification is attempted once,
\* not retried, and the workflow completes with notificationSent = false.
C7_RetryClassification ==
  /\ EveryAnswer(503)
       => /\ engine.act = "sendEmailNotification"
          /\ engine.outcome.kind = "throw"
          /\ engine.status = "scheduled"
               => /\ pc = "awaitEmail"
                  /\ engine.attempt <= notificationRetryPolicy.maximumAttempts
          /\ engine.status \in {"failed", "delivered"}
               => engine.attempt = notificationRetryPolicy.maximumAttempts
          /\ Terminal => pc = "failed"
  /\ EveryAnswer(401)
       => /\ engine.act = "sendEmailNotification"
          /\ engine.attempt = 1
          /\ engine.status \in {"completed", "delivered"}
          /\ engine.outcome.kind = "return"
          /\ engine.outcome.value = FALSE
          /\ Terminal => /\ pc = "completed"
                         /\ result.notificationSent = FALSE
                         /\ failure = NoFailure

C7_Witness ==
  /\ EveryAnswer(503)
  /\ pc = "failed"
  /\ engine.attempt = notificationRetryPolicy.maximumAttempts

\* the attempts of the awaited activity that have ended
AttemptsEnded == IF engine.status = "scheduled" THEN engine.attempt - 1 ELSE engine.attempt

AttemptCeilings ==
  /\ \A a \in Activities : calls[a] <= 1
  /\ engine.act # "none" =>
       /\ engine.attempt <= activityOptions(engine.act).maximumAttempts
       /\ AttemptsEnded <= activityOptions(engine.act).maximumAttempts
  /\ engine.act = "getTrafficData" => engine.attempt <= 5
  /\ engine.act = "calculateDelay" => engine.attempt <= 3
  /\ engine.act = "generateDelayMessage" => engine.attempt <= 4
  /\ engine.act = "sendEmailNotification" => engine.attempt <= 6

\* the last allowed attempt ends in this step
LastAttemptEnds ==
  /\ engine.status = "scheduled"
  /\ engine.attempt = activityOptions(engine.act).maximumAttempts
  /\ engine' # engine

\* C8: in one execution getTrafficData is attempted at most 5 times,
\* calculateDelay at most 3, generateDelayMessage at most 4 and
\* sendEmailNotification at most 6 times, whatever fails or times out; when the
\* last allowed attempt fails, the failure is delivered to the workflow.
C8_AttemptCeilings ==
  /\ []AttemptCeilings
  /\ [][LastAttemptEnds
          => /\ engine'.act = engine.act
             /\ engine'.attempt = engine.attempt
             /\ engine'.status \in {"completed", "failed"}
             /\ engine'.outcome.kind = "throw" => engine'.status = "failed"]_vars

C8_Witness ==
  /\ engine.act = "getTrafficData"
  /\ engine.status = "failed"
  /\ engine.attempt = 5
  /\ engine.outcome = timeoutFailure

\* C9: an activity that fails because its input is invalid (getTrafficData
\* given an invalid route, calculateDelay given invalid traffic data or a
\* non-positive baseline) is attempted exactly once and its failure is
\* delivered to the workflow without a retry.
C9_ValidationNeverRetries ==
  (/\ engine.act \in {"getTrafficData", "calculateDelay"}
   /\ engine.outcome.kind = "throw"
   /\ engine.outcome.cause \in {"InvalidRoute", "InvalidTrafficData", "InvalidBaseline"})
    => /\ engine.attempt = 1
       /\ engine.status \in {"failed", "delivered"}

\* C10: a 401, 403 or 400 from the traffic provider is terminal, so
\* getTrafficData is not attempted again after it; a 5xx or a request timeout
\* is retried per the traffic retry policy.
C10_TrafficErrorClassification ==
  (engine.act = "getTrafficData" /\ engine.outcome.kind = "throw")
    => /\ engine.outcome.cause \in {"Http401", "Http403", "Http400"}
            => engine.status \in {"failed", "delivered"}
       /\ (/\ engine.outcome.cause \in {"Http5xx", "NetworkTimeout"}
           /\ engine.status \in {"failed", "delivered"})
            => engine.attempt = trafficMonitoringRetryPolicy.maximumAttempts

----------------------------------------------------------------------------
(* Message generation *)

DirectGenerate == direct.op = "generateDelayMessage"

\* an attempt of generateDelayMessage in the workflow that ran to its end
GenerateEnded ==
  /\ engine.act = "generateDelayMessage"
  /\ engine.outcome # NoOutcome
  /\ engine.outcome # timeoutFailure

C12_RejectsInvalidNotification ==
  (DirectGenerate /\ validateDelayNotification(direct.n) # "ok")
    => direct.outcome.kind = "throw"

\* the provider has a credential and valid text ready
ValidText(response) ==
  response.kind = "content" /\ generateAIMessage(response).kind = "return"

\* C13: in the workflow, when the provider has a credential and returns valid
\* text, generateDelayMessage (called with the message field still empty)
\* returns that text, and that text is the message sendEmailNotification gets.
C13_AiTextUsed ==
  ValidText(messageLog.response) =>
    /\ messageLog.called
    /\ engine.act = "generateDelayMessage" =>
          engine.outcome = Returned(messageLog.response.text)
    /\ calls["sendEmailNotification"] = 1 =>
          notification.message = messageLog.response.text

\* the workflow's step from the end of the generateDelayMessage call
MessageStep == pc = "awaitMessage" /\ pc' # "awaitMessage"

\* C14: the message-generation step cannot fail the workflow: whether
\* generateDelayMessage returned a text or its call failed after the retries,
\* the workflow takes a message (the returned text, or the config's template
\* filled in) and calls sendEmailNotification; no execution fails at that step.
C14_MessageStepCannotFail ==
  /\ [](pc = "failed" => engine.act # "generateDelayMessage")
  /\ []((calls["generateDelayMessage"] = 1 /\ pc # "awaitMessage")
          => (calls["sendEmailNotification"] = 1 /\ messageSource \in {"ai", "fallback"}))
  /\ [][MessageStep =>
          /\ pc' = "awaitEmail"
          /\ engine' = Schedule("sendEmailNotification")
          /\ notification'.message =
               IF engine.status = "completed" THEN engine.outcome.value
               ELSE workflowFallbackMessage(input.config, input.route,
                                            notification.delayMinutes)]_vars

\* the generateDelayMessage call failed after its last attempt and the
\* workflow went on to the e-mail with the config's template
C14_Witness ==
  /\ pc = "awaitEmail"
  /\ messageSource = "fallback"
  /\ notification.message =
       workflowFallbackMessage(input.config, input.route, notification.delayMinutes)

----------------------------------------------------------------------------
(* Notification delivery, called directly *)

\* a direct call of sendEmailNotification that reached the provider, which
\* answered with an error
DirectSendError ==
  /\ direct.op = "sendEmailNotification"
  /\ direct.called
  /\ direct.response.kind = "error"

NetworkCodes == {"ECONNRESET", "ETIMEDOUT", "ENOTFOUND"}

\* C16: a provider failure with code ECONNRESET, ETIMEDOUT or ENOTFOUND, or
\* with an HTTP status >= 500, or with status 429, makes sendEmailNotification
\* raise an error; it does not return false.
C16_RetryableFailuresRaise ==
  /\ (/\ DirectSendError
      /\ \/ direct.response.code \in NetworkCodes
         \/ direct.response.status >= 500
         \/ direct.response.status = 429)
       => direct.outcome = Thrown("Error", "RetryableEmail")
  /\ (/\ engine.act = "sendEmailNotification"
      /\ emailLog.last.kind = "http"
      /\ emailLog.last.status >= 500 \/ emailLog.last.status = 429)
       => engine.outcome = Thrown("Error", "RetryableEmail")

\* a rate-limited call raised, whatever the error's message says
C16_Witness ==
  /\ DirectSendError
  /\ direct.response.status = 429
  /\ direct.response.message = "unauthorized"
  /\ direct.outcome.kind = "throw"

\* C17: a provider failure with an HTTP status in 400..499 other than 429
\* (400, 401, 404) makes sendEmailNotification return false; it does not raise.
C17_PermanentFailuresAreSoft ==
  (/\ DirectSendError
   /\ direct.response.status >= 400
   /\ direct.response.status <= 499
   /\ direct.response.status # 429)
    => direct.outcome = Returned(FALSE)

\* a 404 answer ended in false
C17_Witness ==
  /\ DirectSendError
  /\ direct.response.status = 404
  /\ direct.outcome = Returned(FALSE)

\* C18: sendEmailNotification validates first: an invalid notification (empty
\* customer id, malformed e-mail, missing route, negative delay or empty
\* message) makes it return false, without raising and without a call of the
\* e-mail provider, whatever the provider would have answered.
C18_InvalidNotificationIsSoft ==
  /\ (direct.op = "sendEmailNotification" /\ validateDelayNotification(direct.n) # "ok")
       => (direct.outcome = Returned(FALSE) /\ ~direct.called)
  /\ (engine.act = "sendEmailNotification" /\ emailLog.last.kind = "invalid")
       => (engine.outcome = Returned(FALSE) /\ emailLog.accepted = 0)

\* a notification that is invalid only by its missing route, with a provider
\* ready to accept the mail
C18_Witness ==
  /\ direct.op = "sendEmailNotification"
  /\ validateDelayNotification(direct.n) = "Route must be provided"
  /\ direct.response.kind = "accepted"
  /\ direct.outcome = Returned(FALSE)
  /\ ~direct.called

----------------------------------------------------------------------------
(* The order of the workflow's steps *)

\* the activity the workflow awaits at each position
Awaited ==
  CASE pc = "awaitTraffic" -> "getTrafficData"
    [] pc = "awaitDelay" -> "calculateDelay"
    [] pc = "awaitMessage" -> "generateDelayMessage"
    [] pc = "awaitEmail" -> "sendEmailNotification"
    [] OTHER -> "none"

\* the activity call the workflow awaited has ended: returned, or failed for good
CallEnded == engine.status \in {"completed", "failed"}

CallOrder ==
  <<"getTrafficData", "calculateDelay", "generateDelayMessage", "sendEmailNotification">>

\* the activities called so far are the first k of CallOrder
CalledPrefix(k) ==
  \A i \in 1..Len(CallOrder) : calls[CallOrder[i]] = IF i <= k THEN 1 ELSE 0

\* C19: the steps are strictly sequential: the only activity call outstanding
\* is the one the workflow awaits; a call is started only when the call before
\* it has ended, getTrafficData before delay analysis, delay analysis before
\* generateDelayMessage, generateDelayMessage before sendEmailNotification.
C19_StrictlySequential ==
  /\ [](engine.status = "scheduled" => engine.act = Awaited)
  /\ [](calls["calculateDelay"] = 1 => trafficData # NoTrafficData)
  /\ [](calls["generateDelayMessage"] = 1 => (calls["calculateDelay"] = 1 /\ DelayKnown))
  /\ [](calls["sendEmailNotification"] = 1
          => (calls["generateDelayMessage"] = 1 /\ messageSource # "none"))
  /\ [][(engine'.status = "scheduled" /\ engine'.act # engine.act /\ engine.act # "none")
          => CallEnded]_vars

\* sendEmailNotification is outstanding, after the three calls before it
C19_Witness ==
  /\ engine.status = "scheduled"
  /\ engine.act = "sendEmailNotification"
  /\ CalledPrefix(4)

\* C20 as stated: delay analysis has no activity boundary: no activity is
\* scheduled between getTrafficData and generateDelayMessage.
C20_NoDelayAnalysisActivity ==
  calls["calculateDelay"] = 0 /\ engine.act # "calculateDelay"

\* C20, amended: the delay computation is an activity: calculateDelay is called
\* through the engine between getTrafficData and generateDelayMessage, so the
\* calls of an execution are a prefix of getTrafficData, calculateDelay,
\* generateDelayMessage, sendEmailNotification, made in that order; the call
\* can time out, is retried up to 3 attempts, and a failure of it fails the
\* workflow.  Only the comparison with the threshold is done in-process.
C20_DelayAnalysisIsAnActivity ==
  /\ [](\E k \in 0..Len(CallOrder) : CalledPrefix(k))
  /\ [][calls' # calls
          => \E k \in 1..Len(CallOrder) :
               /\ CalledPrefix(k - 1)
               /\ CalledPrefix(k)'
               /\ engine' = Schedule(CallOrder[k])]_vars
  /\ []((engine.act = "calculateDelay" /\ engine.status = "failed")
          => (engine.outcome = timeoutFailure /\ engine.attempt = 3))
  /\ []((pc = "failed" /\ engine.act = "calculateDelay")
          => failure = workflowFailure(input.route, input.customer))
  /\ [][(pc = "awaitDelay" /\ pc' = "awaitMessage")
          => exceedsDelayThreshold(engine.outcome.value,
                                   input.config.delayThresholdMinutes)]_vars

\* the calculateDelay call timed out three times and the workflow failed
C20_Witness ==
  /\ pc = "failed"
  /\ engine.act = "calculateDelay"
  /\ engine.attempt = 3
  /\ CalledPrefix(2)

----------------------------------------------------------------------------
(* Replay *)

\* C21: replay determinism: the activity calls the workflow has scheduled, with
\* their arguments, and its position, result and failure are those the
\* workflow function comes to from the input and the recorded outcomes alone;
\* two runs with the same input and history therefore agree in all of them.
C21_ReplayDeterminism ==
  Len(history.scheduled) > 0 =>
    LET replayed == ReplayWorkflow(input, history.delivered)
    IN  /\ replayed.scheduled = history.scheduled
        /\ replayed.pc = pc
        /\ replayed.result = result
        /\ replayed.failure = failure

\* a notifying execution whose four recorded outcomes replay to its result
C21_Witness ==
  /\ Len(history.delivered) = 4
  /\ pc = "completed"
  /\ ReplayWorkflow(input, history.delivered).result = result
  /\ ReplayWorkflow(input, history.delivered).scheduled = history.scheduled

----------------------------------------------------------------------------
(* Entry points *)

\* C23: a customer e-mail that does not match local@domain.tld is rejected at
\* every entry point; in particular the workflow function rejects it at its
\* input, so that an execution with such an e-mail calls no activity.
C23_InvalidEmailStopsAtWorkflowInput ==
  ~emailRegex(input.customer.customerEmail) => calls["getTrafficData"] = 0

----------------------------------------------------------------------------
(* Traffic snapshots *)

\* data is consistent with a traffic-adjusted duration of seconds and a baseline
ConsistentSnapshot(data, seconds, baseline) ==
  /\ 60 * data.currentTravelTimeMinutes >= seconds
  /\ 60 * (data.currentTravelTimeMinutes - 1) < seconds
  /\ data.delayMinutes >= 0
  /\ data.delayMinutes >= data.currentTravelTimeMinutes - baseline
  /\ \/ data.delayMinutes = 0
     \/ data.delayMinutes = data.currentTravelTimeMinutes - baseline

\* C24: every snapshot getTrafficData returns has currentTravelTimeMinutes equal
\* to the provider's duration in traffic, in seconds, rounded up to whole
\* minutes, and delayMinutes equal to max(0, currentTravelTimeMinutes -
\* baselineTimeMinutes), never negative.
C24_SnapshotConsistency ==
  /\ (direct.op = "getTrafficData" /\ direct.outcome.kind = "return")
       => /\ direct.response.kind = "ok"
          /\ ConsistentSnapshot(direct.outcome.value, direct.response.seconds,
                                direct.route.baselineTimeMinutes)
  /\ trafficData # NoTrafficData
       => /\ \E seconds \in DurationSeconds :
               ConsistentSnapshot(trafficData, seconds, input.route.baselineTimeMinutes)

\* a duration that is not a whole number of minutes, above the baseline
C24_Witness ==
  /\ direct.op = "getTrafficData"
  /\ direct.outcome.kind = "return"
  /\ direct.response.seconds = 61
  /\ direct.outcome.value.currentTravelTimeMinutes = 2
  /\ direct.outcome.value.delayMinutes = 1

----------------------------------------------------------------------------
(* The fallback message *)

\* the provider was asked and raised, or returned no content or too short a text
DefectiveAnswer ==
  /\ DirectGenerate
  /\ direct.called
  /\ \/ direct.response.kind = "error"
     \/ direct.response.text = <<>>
     \/ direct.response.length < 50

\* C25: whenever the generation provider raises, returns empty content or
\* returns a text shorter than 50 characters, generateDelayMessage returns the
\* fallback message, the template with the delay minutes filled in, and
\* neither fails nor returns the defective text.
C25_AiFailureFallsBack ==
  DefectiveAnswer =>
    /\ direct.outcome.kind = "return"
    /\ direct.outcome.value # direct.response.text
    /\ SubSeq(direct.outcome.value, 1, 3) =
         <<"Dear Valued Customer, delay of ", ToString(direct.n.delayMinutes), " minutes">>

\* a text of 49 characters was discarded for the fallback
C25_Witness ==
  /\ DefectiveAnswer
  /\ direct.response.text # <<>>
  /\ direct.response.length = 49
  /\ direct.outcome.kind = "return"
  /\ direct.outcome.value # direct.response.text

\* s with every occurrence of placeholder substituted by value
RECURSIVE SubstituteAll(_, _, _)
SubstituteAll(s, placeholder, value) ==
  IF s = <<>> THEN <<>>
  ELSE IF Head(s) = placeholder THEN value \o SubstituteAll(Tail(s), placeholder, value)
  ELSE <<Head(s)>> \o SubstituteAll(Tail(s), placeholder, value)

\* C26: the fallback message is the configured template with {delayMinutes},
\* {origin} and {destination} substituted by the notification's values,
\* followed by a 'Route Reference: <routeId>' line if and only if the route's
\* routeId is non-empty.
C26_FallbackConstruction ==
  direct.op = "generateFallbackMessage" =>
    LET n == direct.n
        filled == SubstituteAll(SubstituteAll(SubstituteAll(direct.template,
                    "{delayMinutes}", <<ToString(n.delayMinutes)>>),
                    "{origin}", n.route.origin),
                    "{destination}", n.route.destination)
    IN  direct.outcome.value =
          IF n.route.routeId # <<>>
            THEN filled \o <<"Route Reference: ">> \o n.route.routeId
            ELSE filled

\* the message the workflow handed to sendEmailNotification is not the
\* provider's text
FallbackDelivered ==
  /\ calls["sendEmailNotification"] = 1
  /\ ~(ValidText(messageLog.response) /\ notification.message = messageLog.response.text)

\* C27: whenever the message delivered to sendEmailNotification is a fallback,
\* it is built from the fallbackMessage template of the execution's config.
C27_FallbackFromConfig ==
  FallbackDelivered =>
    notification.message =
      workflowFallbackMessage(input.config, input.route, notification.delayMinutes)

----------------------------------------------------------------------------
(* The notify decision and the exceedsThreshold operation *)

\* what exceedsThreshold answers for the execution's delay and threshold
Verdict == exceedsThreshold(result.delayMinutes, input.config.delayThresholdMinutes)

Notifying == calls["generateDelayMessage"] = 1

----------------------------------------------------------------------------
(* sentAt *)

DirectSend == direct.op = "sendEmailNotification"

\* C29: sendEmailNotification sets notification.sentAt exactly when the
\* provider call succeeded and it returns true; on every other path
\* (validation failure, false for a permanent error, a raised retryable error)
\* the notification, sentAt included, is left as it was; no other field is
\* ever changed.
C29_SentAtOnlyOnSuccess ==
  DirectSend =>
    /\ ("sentAt" \in DOMAIN direct.after) <=> (direct.outcome = Returned(TRUE))
    /\ direct.outcome = Returned(TRUE) <=> direct.response.kind = "accepted" /\ direct.called
    /\ direct.outcome # Returned(TRUE) => direct.after = direct.n
    /\ \A f \in DOMAIN direct.n : direct.after[f] = direct.n[f]

\* the provider took the mail and sentAt is set
C29_Witness ==
  /\ DirectSend
  /\ direct.outcome = Returned(TRUE)
  /\ direct.after.sentAt = "now"

----------------------------------------------------------------------------
(* Severity *)

\* C30: the severity logged for a delay is NONE for 0, MINIMAL for 1..10, LOW
\* for 11..19, MODERATE for 20..30, HIGH for 31..60 and CRITICAL above 60, and
\* calculateDelay returns the delay whatever the severity is.
C30_SeverityClassification ==
  direct.op = "logDelaySeverity" =>
    /\ direct.outcome = Returned(direct.delay)
    /\ direct.severity =
         CASE direct.delay = 0 -> "NONE"
           [] direct.delay \in 1..10 -> "MINIMAL"
           [] direct.delay \in 11..19 -> "LOW"
           [] direct.delay \in 20..30 -> "MODERATE"
           [] direct.delay \in 31..60 -> "HIGH"
           [] direct.delay > 60 -> "CRITICAL"

\* the boundary between LOW and MODERATE
C30_Witness ==
  /\ direct.op = "logDelaySeverity"
  /\ direct.delay = 20
  /\ direct.severity = "MODERATE"
  /\ direct.outcome = Returned(20)

----------------------------------------------------------------------------
(* monitorWorkflow *)

MonitorEnded == monitor.pc = "done"

MonitorElapsed == monitor.now - monitor.startTime

\* C31 as stated: monitorWorkflow returns only a terminal status, never
\* RUNNING; a call that ends without having seen a terminal status fails with
\* the monitoring-timeout error; and on every exit path the client it opened
\* has been closed.
C31_PollsUntilTerminalOrTimeout ==
  /\ monitor.outcome.kind = "return"
       => monitor.outcome.value.status \in WorkflowStatuses \ {"RUNNING"}
  /\ MonitorEnded /\ monitor.outcome.kind # "return"
       => monitor.outcome = monitoringTimeout
  /\ MonitorEnded /\ monitor.client # "null" => monitor.closeCalls = 1

\* C31, amended: monitorWorkflow returns only a terminal status, never
\* RUNNING; it fails with the monitoring-timeout error exactly when a test of
\* the loop condition finds timeoutMs elapsed, with the connect error when the
\* client cannot be created, and with the error of getWorkflowStatus when a
\* poll fails; and on every exit path on which a client was created close() is
\* called exactly once, while no close() is made when create failed.
C31_PollsUntilTerminalTimeoutOrError ==
  /\ [](/\ monitor.outcome.kind = "return"
             => monitor.outcome.value.status \in WorkflowStatuses \ {"RUNNING"}
        /\ monitor.outcome.kind = "throw"
             => monitor.outcome \in {monitoringTimeout, connectError,
                                      getWorkflowStatus([kind |-> "error"])}
        /\ monitor.outcome = monitoringTimeout
             => monitor.client # "null" /\ MonitorElapsed >= monitor.timeoutMs
        /\ monitor.outcome = connectError
             => monitor.client = "null" /\ monitor.closeCalls = 0
        /\ MonitorEnded /\ monitor.client # "null" => monitor.closeCalls = 1)
  /\ [][monitor.pc = "while"
          => (monitor'.outcome = monitoringTimeout
                <=> MonitorElapsed >= monitor.timeoutMs)]_vars

\* a call that polled, saw no terminal status, timed out and closed its client
C31_Witness ==
  /\ MonitorEnded
  /\ monitor.timeoutMs > 0
  /\ monitor.outcome = monitoringTimeout
  /\ monitor.closeCalls = 1

----------------------------------------------------------------------------
(* worker.ts *)

\* C32: worker.shutdown() is invoked at most once, whatever handlers run and
\* however they interleave, and a shutdown() call that finds isShuttingDown
\* already true returns without touching the worker.
C32_ShutdownAtMostOnce ==
  /\ [](/\ workerProcess.shutdownCalls <= 1
        /\ workerProcess.lastShutdown.isShuttingDown => ~workerProcess.lastShutdown.stopped)
  /\ [][workerProcess.isShuttingDown /\ workerProcess'.lastShutdown.entered
          /\ workerProcess'.handlers # workerProcess.handlers
          => /\ workerProcess'.shutdownCalls = workerProcess.shutdownCalls
             /\ workerProcess'.worker = workerProcess.worker]_vars

\* a second handler ran after the first one had stopped the worker
C32_Witness ==
  /\ Handled(workerProcess.handlers, ShutdownEvents) >= 2
  /\ workerProcess.shutdownCalls = 1
  /\ workerProcess.lastShutdown.isShuttingDown

----------------------------------------------------------------------------
(* Cancellation *)

\* C33: an execution whose cancellation was requested by cancelWorkflow and
\* observed by the workflow ends with status CANCELLED: it does not fail with
\* a WorkflowExecutionError and it does not complete with a result.
C33_CancelledEndsCancelled ==
  ScopeCancelled /\ Terminal =>
    /\ executionStatus = "CANCELLED"
    /\ failure.type # "WorkflowExecutionError"
    /\ pc # "completed"

----------------------------------------------------------------------------
(* Delivery *)

\* C34: within one execution the e-mail provider takes at most one mail,
\* whatever the provider answers, whichever attempts time out and however the
\* engine retries sendEmailNotification.
C34_AtMostOnceDelivery == emailLog.accepted <= 1

\* C35: an execution during which the provider took the mail completes with
\* notificationSent = true; it neither fails nor returns notificationSent =
\* false.
C35_DeliveryNeverUnderReported ==
  Terminal /\ emailLog.accepted >= 1 => pc = "completed" /\ result.notificationSent

----------------------------------------------------------------------------
(* The result record *)

\* C36: every result the workflow returns has notificationSent only with
\* delayDetected, delayDetected exactly when delayMinutes exceeds the
\* config's threshold, delayMinutes >= 0, and an errorMessage exactly when a
\* delay was detected and no notification was sent.
C36_ResultConsistency ==
  pc = "completed" =>
    /\ result.notificationSent => result.delayDetected
    /\ result.delayDetected <=> result.delayMinutes > input.config.delayThresholdMinutes
    /\ result.delayMinutes >= 0
    /\ result.errorMessage # "none" <=> result.delayDetected /\ ~result.notificationSent

\* a returned result with a detected delay and a sent notification, and no
\* errorMessage
C36_Witness ==
  /\ pc = "completed"
  /\ result.delayDetected
  /\ result.notificationSent
  /\ result.delayMinutes > input.config.delayThresholdMinutes
  /\ result.errorMessage = "none"

----------------------------------------------------------------------------
(* Termination *)

Started == pc \notin {"start", "rejected"}

\* C37 as stated: provided every attempt of an activity ends, every execution
\* eventually returns a result or fails with WorkflowExecutionError.
C37_ReturnsOrFails == Started ~> Terminal

\* C37, amended: provided every attempt of an activity ends, every execution
\* eventually returns a result, fails with WorkflowExecutionError or, when the
\* client started it, is closed as TIMED_OUT by the engine once the
\* workflowRunTimeout of 300 seconds has passed; an execution without a run
\* timeout always ends in one of the first two ways.
C37_ReturnsFailsOrTimesOut ==
  /\ Started ~> (Terminal \/ pc = "timedOut")
  /\ [](pc = "timedOut" =>
          /\ runTimer.timeout = workflowRunTimeout
          /\ runTimer.elapsed >= runTimer.timeout
          /\ validateInput(input) = "ok")

\* an execution the client started whose first two attempts of
\* sendEmailNotification timed out, closed during the third
C37_Witness ==
  /\ pc = "timedOut"
  /\ engine.act = "sendEmailNotification"
  /\ engine.attempt = 3
  /\ executionStatus = "TIMED_OUT"

====
